---- MODULE Spec2Model ----
(***************************************************************************)
(* A model of the seren command-line tool (apps/cli/src/index.ts, and the  *)
(* later revision of the same program carried in apps/cli/src/index.test.ts *)
(* which adds `add auth`).                                                  *)
(*                                                                          *)
(* The state is the disk.  One action is one invocation of the program:    *)
(* the process starts, dispatches on its arguments, runs one handler to    *)
(* its end (or to the statement that throws or calls process.exit) and     *)
(* leaves an exit code.                                                     *)
(*                                                                          *)
(* Paths are sequences of segments (the text between the "/" separators);  *)
(* a path on disk is absolute and normalised.  A JSON file is the ordered  *)
(* sequence of <<key, value>> pairs of the object that JSON.stringify       *)
(* printed; a text file is the sequence of its "\n"-terminated lines.       *)
(***************************************************************************)
EXTENDS Integers, Sequences, FiniteSets, TLC

VARIABLES
  fs,       \* the disk: absolute path |-> node (directory, JSON file, text file)
  session,  \* where the user works: [cwd, target], fixed for one behaviour
  last,     \* the last invocation: its arguments, its cwd and its exit code
  log       \* the file-system and child-process calls of the last invocation, in
            \* order: [op, path, over], over being whether the path was there before

vars == <<fs, session, last, log>>

----------------------------------------------------------------------------
(* Bounds of the model *)

\* `add auth` wraps the schema file in new text on every run; the model stops
\* invoking it once the schema file holds this many copies of the auth block.
MaxAuthBlocks == 2

----------------------------------------------------------------------------
(* Sequences and JSON objects *)

Last(s) == s[Len(s)]

Front(s) == SubSeq(s, 1, Len(s) - 1)

\* obj[k] !== undefined
Has(obj, k) == \E i \in 1..Len(obj) : obj[i][1] = k

\* obj[k]
Get(obj, k) == obj[CHOOSE i \in 1..Len(obj) : obj[i][1] = k][2]

\* obj[k] = v : an existing key keeps its place, a new key goes last
Set(obj, k, v) ==
  IF Has(obj, k)
    THEN [i \in 1..Len(obj) |-> IF obj[i][1] = k THEN <<k, v>> ELSE obj[i]]
    ELSE Append(obj, <<k, v>>)

Keys(obj) == {obj[i][1] : i \in 1..Len(obj)}

----------------------------------------------------------------------------
(* The disk *)

Dir == [kind |-> "dir"]

\* writeFile(path, JSON.stringify(obj, null, 2))
Json(obj) == [kind |-> "json", obj |-> obj]

\* writeFile(path, `...`) with the template's lines
Text(lines) == [kind |-> "text", lines |-> lines]

Exists(f, p) == p \in DOMAIN f

IsDir(f, p) == p \in DOMAIN f /\ f[p].kind = "dir"

IsFile(f, p) == p \in DOMAIN f /\ f[p].kind # "dir"

\* readdirSync(p): the names of the entries of directory p
Entries(f, p) == {q[Len(p) + 1] : q \in {r \in DOMAIN f : Len(r) > Len(p) /\ SubSeq(r, 1, Len(p)) = p}}

Prefixes(p) == {SubSeq(p, 1, n) : n \in 1..Len(p)}

RECURSIVE Norm(_, _)
Norm(acc, segs) ==
  IF segs = <<>> THEN acc
  ELSE LET s == Head(segs) IN
       Norm(IF s \in {"", "."} THEN acc
            ELSE IF s = ".." THEN (IF acc = <<>> THEN acc ELSE Front(acc))
            ELSE Append(acc, s),
            Tail(segs))

\* The absolute path that the relative path `segs` names in directory `dir`
Resolve(dir, segs) == Norm(dir, segs)

RECURSIVE StripSlashes(_)
StripSlashes(segs) ==
  IF segs # <<>> /\ Last(segs) = "" THEN StripSlashes(Front(segs)) ELSE segs

basename_first(segs) ==
  LET s == StripSlashes(segs) IN IF s = <<>> THEN "" ELSE Head(s)

\* path.basename: trailing separators are dropped, then the last segment is taken
basename(segs) ==
  LET s == StripSlashes(segs) IN IF s = <<>> THEN "" ELSE Last(s)

(* A run of one handler threads a record [fs, ok, log]: ok turns FALSE at    *)
(* the statement that throws or exits, and every later statement is skipped. *)

Start(f) == [fs |-> f, ok |-> TRUE, log |-> <<>>]

Fail(st) == [st EXCEPT !.ok = FALSE]

\* a statement that throws unless cond holds (a read of a missing file, a
\* property access on undefined)
Require(st, cond) == IF st.ok /\ ~cond THEN Fail(st) ELSE st

\* mkdir(p, { recursive: true })
Mkdir(st, p) ==
  IF ~st.ok THEN st
  ELSE IF \E q \in Prefixes(p) : IsFile(st.fs, q) THEN Fail(st)
  ELSE [st EXCEPT
          !.fs = [q \in DOMAIN st.fs \cup Prefixes(p) |->
                    IF q \in DOMAIN st.fs THEN st.fs[q] ELSE Dir],
          !.log = Append(@, [op |-> "mkdir", path |-> p, over |-> IsDir(st.fs, p)])]

\* writeFile(p, content)
WriteFile(st, p, content) ==
  IF ~st.ok THEN st
  ELSE IF p = <<>> \/ ~IsDir(st.fs, Front(p)) \/ IsDir(st.fs, p) THEN Fail(st)
  ELSE [st EXCEPT
          !.fs = [q \in DOMAIN st.fs \cup {p} |-> IF q = p THEN content ELSE st.fs[q]],
          !.log = Append(@, [op |-> "write", path |-> p, over |-> Exists(st.fs, p)])]

\* execSync(cmd): the child process runs; `ok` is whether it exits 0 (execSync
\* throws otherwise) and `after` is the disk it leaves when it does
Exec(st, cmd, ok, after) ==
  IF ~st.ok THEN st
  ELSE [fs |-> IF ok THEN after ELSE st.fs,
        ok |-> ok,
        log |-> Append(st.log, [op |-> "exec", path |-> <<cmd>>, over |-> FALSE])]

----------------------------------------------------------------------------
(* init *)

\* `git init <dir>` exiting 0: <dir>/.git is there afterwards
GitInit(f, dir) ==
  [q \in DOMAIN f \cup Prefixes(Append(dir, ".git")) |-> IF q \in DOMAIN f THEN f[q] ELSE Dir]

RootManifest_flat(pkgName) ==
  Json(<< <<"name", pkgName>>, <<"private", TRUE>> >>)

RootManifest(pkgName) ==
  Json(<< <<"name", pkgName>>,
          <<"private", TRUE>>,
          <<"workspaces", <<"apps/*", "packages/*">> >> >>)

TsconfigManifest_two(pkgName) ==
  Json(<< <<"name", "@" \o pkgName \o "/tsconfig">>,
          <<"private", TRUE>>,
          <<"exports", << <<"./base", "./base.json">>,
                          <<"./react", "./react.json">> >> >> >>)

TsconfigManifest(pkgName) ==
  Json(<< <<"name", "@" \o pkgName \o "/tsconfig">>,
          <<"private", TRUE>>,
          <<"exports", << <<"./base", "./base.json">>,
                          <<"./react", "./react.json">>,
                          <<"./node", "./node.json">> >> >> >>)

BaseJson ==
  Json(<< <<"compilerOptions",
            << <<"allowUnreachableCode", FALSE>>,
               <<"allowUnusedLabels", FALSE>>,
               <<"exactOptionalPropertyTypes", TRUE>>,
               <<"noFallthroughCasesInSwitch", TRUE>>,
               <<"noImplicitOverride", TRUE>>,
               <<"noImplicitReturns", TRUE>>,
               <<"noUncheckedIndexedAccess", TRUE>>,
               <<"noUnusedLocals", TRUE>>,
               <<"noUnusedParameters", TRUE>>,
               <<"strict", TRUE>>,
               <<"target", "ES2022">>,
               <<"module", "ESNext">>,
               <<"moduleResolution", "bundler">>,
               <<"skipLibCheck", TRUE>>,
               <<"noEmit", TRUE>>,
               <<"verbatimModuleSyntax", TRUE>>,
               <<"noUncheckedSideEffectImports", TRUE>> >> >> >>)

ReactJson ==
  Json(<< <<"extends", "./base.json">>,
          <<"compilerOptions",
            << <<"lib", <<"ES2022", "DOM", "DOM.Iterable">> >>,
               <<"jsx", "react-jsx">> >> >> >>)

NodeJson ==
  Json(<< <<"extends", "./base.json">>,
          <<"compilerOptions",
            << <<"lib", <<"ES2023">> >>,
               <<"types", <<"node">> >> >> >> >>)

Gitignore == Text(<<".DS_Store", "node_modules", "dist">>)

InitRefused_manifest(f, targetDir) == Exists(f, Append(targetDir, "package.json"))

InitRefused_exists(f, targetDir) == Exists(f, targetDir)

\* the guard of init: the target exists and readdirSync(target) is not empty
\* (readdirSync of a target that is a file throws)
InitRefused(f, targetDir) ==
  Exists(f, targetDir) /\ (IsFile(f, targetDir) \/ Entries(f, targetDir) # {})

InitPkgName_path(dir, name) ==
  IF name = <<".">> THEN basename(dir) ELSE basename_first(name)

\* const pkgName = isCurrentDir ? basename(resolve(".")) : basename(name)
InitPkgName(dir, name) ==
  IF name = <<".">> THEN basename(dir) ELSE basename(name)

\* init(name) run in directory dir; gitOk is whether `git init` exits 0
init(f, dir, name, gitOk) ==
  LET isCurrentDir == name = <<".">>
      prefix    == IF isCurrentDir THEN <<>> ELSE name
      pkgName   == InitPkgName(dir, name)
      targetDir == Resolve(dir, IF isCurrentDir THEN <<".">> ELSE name)
      P(rel)    == Resolve(dir, prefix \o rel)
      s0  == Start(f)
      s1  == Require(s0, ~InitRefused(f, targetDir))
      s2  == Mkdir(s1, P(<<"apps">>))
      s3  == Mkdir(s2, P(<<"packages", "tsconfig">>))
      s4  == WriteFile(s3, P(<<"package.json">>), RootManifest(pkgName))
      s5  == WriteFile(s4, P(<<"packages", "tsconfig", "package.json">>), TsconfigManifest(pkgName))
      s6  == WriteFile(s5, P(<<"packages", "tsconfig", "base.json">>), BaseJson)
      s7  == WriteFile(s6, P(<<"packages", "tsconfig", "react.json">>), ReactJson)
      s8  == WriteFile(s7, P(<<"packages", "tsconfig", "node.json">>), NodeJson)
      s9  == WriteFile(s8, P(<<".gitignore">>), Gitignore)
      s10 == Exec(s9, "git init", gitOk, GitInit(s9.fs, targetDir))
  IN  s10

----------------------------------------------------------------------------
(* add app, add package *)

\* JSON.parse(await readFile("package.json", "utf-8")) does not throw
RootReadable(f, dir) ==
  /\ IsFile(f, Append(dir, "package.json"))
  /\ f[Append(dir, "package.json")].kind = "json"

\* `${obj.name}` as a template substitutes it
NameOf(obj) == IF Has(obj, "name") THEN Get(obj, "name") ELSE "undefined"

\* const scope = rootPkg.name
ScopeOf(f, dir) == NameOf(f[Append(dir, "package.json")].obj)

MemberName_fixed(scope, name) == "@seren/" \o name

\* `@${scope}/${name}`
MemberName(scope, name) == "@" \o scope \o "/" \o name

\* `@${scope}/tsconfig/<variant>`
ConfigRef(scope, variant) == "@" \o scope \o "/tsconfig/" \o variant

IndexHtml(name) ==
  Text(<< "<!doctype html>",
          "<html lang=\"en\">",
          "  <head>",
          "    <meta charset=\"UTF-8\" />",
          "    <meta name=\"viewport\" content=\"width=device-width, initial-scale=1.0\" />",
          "    <title>" \o name \o "</title>",
          "  </head>",
          "  <body>",
          "    <div id=\"root\"></div>",
          "    <script type=\"module\" src=\"/src/main.tsx\"></script>",
          "  </body>",
          "</html>" >>)

MainTsx_inplace(tailwind) ==
  Text(<< "import { createRoot } from \"react-dom/client\";",
          "import { App } from \"./App\";",
          IF tailwind THEN "import \"./index.css\";" ELSE "",
          "createRoot(document.getElementById(\"root\")!).render(<App />);" >>)

\* the two pieces of src/main.tsx and vite.config.ts that --tailwind adds are
\* whole lines; the third is inside the plugins line
MainTsx(tailwind) ==
  Text(<< "import { createRoot } from \"react-dom/client\";",
          "import { App } from \"./App\";" >>
       \o (IF tailwind THEN << "import \"./index.css\";" >> ELSE <<>>)
       \o << "",
             "createRoot(document.getElementById(\"root\")!).render(<App />);" >>)

IndexCss == Text(<< "@import \"tailwindcss\";" >>)

AppTsx(name) ==
  Text(<< "export function App() {",
          "  return <h1>Hello from " \o name \o "</h1>;",
          "}" >>)

ViteConfig(tailwind) ==
  Text(<< "import { defineConfig } from \"vite\";",
          "import react from \"@vitejs/plugin-react\";" >>
       \o (IF tailwind THEN << "import tailwindcss from \"@tailwindcss/vite\";" >> ELSE <<>>)
       \o << "",
             "export default defineConfig({",
             "  plugins: [react()" \o (IF tailwind THEN ", tailwindcss()" ELSE "") \o "],",
             "});" >>)

ReactDevDependencies(scope, tailwind) ==
  << <<MemberName(scope, "tsconfig"), "*">>,
     <<"@types/react", "^19.2.5">>,
     <<"@types/react-dom", "^19.2.3">>,
     <<"@vitejs/plugin-react", "^5.1.1">>,
     <<"typescript", "~5.9.3">>,
     <<"vite", "^7.2.4">> >>
  \o (IF tailwind THEN << <<"tailwindcss", "^4.1.10">>, <<"@tailwindcss/vite", "^4.1.10">> >>
                  ELSE <<>>)

ReactManifest(scope, name, tailwind) ==
  Json(<< <<"name", MemberName(scope, name)>>,
          <<"private", TRUE>>,
          <<"scripts", << <<"dev", "vite">>, <<"build", "vite build">> >> >>,
          <<"dependencies", << <<"react", "^19.2.0">>, <<"react-dom", "^19.2.0">> >> >>,
          <<"devDependencies", ReactDevDependencies(scope, tailwind)>> >>)

ReactTsconfig(scope) ==
  Json(<< <<"extends", ConfigRef(scope, "react")>>,
          <<"compilerOptions", << <<"types", <<"vite/client">> >> >> >>,
          <<"include", <<"src", "vite.config.ts">> >> >>)

\* the files addReactApp writes, in order, relative to apps/<name>
ReactFiles(scope, name, tailwind) ==
  << <<<<"package.json">>, ReactManifest(scope, name, tailwind)>>,
     <<<<"index.html">>, IndexHtml(name)>>,
     <<<<"src", "main.tsx">>, MainTsx(tailwind)>> >>
  \o (IF tailwind THEN << <<<<"src", "index.css">>, IndexCss>> >> ELSE <<>>)
  \o << <<<<"src", "App.tsx">>, AppTsx(name)>>,
        <<<<"vite.config.ts">>, ViteConfig(tailwind)>>,
        <<<<"tsconfig.json">>, ReactTsconfig(scope)>> >>

RECURSIVE WriteAll(_, _, _)
WriteAll(st, at, files) ==
  IF files = <<>> THEN st
  ELSE WriteAll(WriteFile(st, at \o Head(files)[1], Head(files)[2]), at, Tail(files))

\* addReactApp(name, tailwind) run in directory dir
addReactApp(f, dir, name, tailwind) ==
  LET s0 == Require(Start(f), RootReadable(f, dir))
      scope == ScopeOf(f, dir)
      at == Resolve(dir, <<"apps", name>>)
      s1 == Mkdir(s0, Append(at, "src"))
  IN  IF ~s0.ok THEN s0 ELSE WriteAll(s1, at, ReactFiles(scope, name, tailwind))

\* (a TLA+ string cannot hold the backquote of the console.log line: it is
\* written as a single quote)
HonoIndex(name) ==
  Text(<< "import { serve } from \"@hono/node-server\";",
          "import { Hono } from \"hono\";",
          "",
          "const app = new Hono();",
          "",
          "app.get(\"/\", (c) => c.text(\"Hello from " \o name \o "!\"));",
          "",
          "serve({ fetch: app.fetch, port: 3000 }, (info) => {",
          "  console.log('Server running at http://localhost:${info.port}');",
          "});" >>)

HonoManifest(scope, name) ==
  Json(<< <<"name", MemberName(scope, name)>>,
          <<"private", TRUE>>,
          <<"type", "module">>,
          <<"scripts", << <<"dev", "tsx watch src/index.ts">>,
                          <<"build", "tsc">>,
                          <<"start", "node dist/index.js">> >> >>,
          <<"dependencies", << <<"hono", "^4.7.0">>, <<"@hono/node-server", "^1.14.0">> >> >>,
          <<"devDependencies", << <<MemberName(scope, "tsconfig"), "*">>,
                                  <<"@types/node", "^22.10.2">>,
                                  <<"tsx", "^4.19.0">>,
                                  <<"typescript", "~5.9.3">> >> >> >>)

HonoTsconfig(scope) ==
  Json(<< <<"extends", ConfigRef(scope, "node")>>,
          <<"compilerOptions", << <<"outDir", "dist">>, <<"noEmit", FALSE>> >> >>,
          <<"include", <<"src">> >> >>)

HonoFiles(scope, name) ==
  << <<<<"package.json">>, HonoManifest(scope, name)>>,
     <<<<"src", "index.ts">>, HonoIndex(name)>>,
     <<<<"tsconfig.json">>, HonoTsconfig(scope)>> >>

\* addHonoApp(name) run in directory dir
addHonoApp(f, dir, name) ==
  LET s0 == Require(Start(f), RootReadable(f, dir))
      scope == ScopeOf(f, dir)
      at == Resolve(dir, <<"apps", name>>)
      s1 == Mkdir(s0, Append(at, "src"))
  IN  IF ~s0.ok THEN s0 ELSE WriteAll(s1, at, HonoFiles(scope, name))

PackageManifest(scope, name) ==
  Json(<< <<"name", MemberName(scope, name)>>,
          <<"private", TRUE>>,
          <<"exports", << <<".", "./src/index.ts">> >> >>,
          <<"devDependencies", << <<MemberName(scope, "tsconfig"), "*">>,
                                  <<"typescript", "~5.9.3">> >> >> >>)

PackageTsconfig(scope) ==
  Json(<< <<"extends", ConfigRef(scope, "base")>>,
          <<"include", <<"src">> >> >>)

PackageFiles(scope, name) ==
  << <<<<"package.json">>, PackageManifest(scope, name)>>,
     <<<<"src", "index.ts">>, Text(<< "export {};" >>)>>,
     <<<<"tsconfig.json">>, PackageTsconfig(scope)>> >>

DbManifest(scope) ==
  Json(<< <<"name", MemberName(scope, "db")>>,
          <<"private", TRUE>>,
          <<"exports", << <<".", "./src/index.ts">> >> >>,
          <<"devDependencies", << <<MemberName(scope, "tsconfig"), "*">> >> >> >>)

DbTsconfig(scope) ==
  Json(<< <<"extends", ConfigRef(scope, "base")>>,
          <<"include", <<"src", "drizzle.config.ts">> >> >>)

DbIndex ==
  Text(<< "import \"dotenv/config\";",
          "import { drizzle } from \"drizzle-orm/neon-http\";",
          "",
          "export const db = drizzle(process.env[\"DATABASE_URL\"]!);" >>)

DrizzleConfig ==
  Text(<< "import \"dotenv/config\";",
          "import { defineConfig } from \"drizzle-kit\";",
          "",
          "export default defineConfig({",
          "  out: \"./drizzle\",",
          "  schema: \"./src/schema.ts\",",
          "  dialect: \"postgresql\",",
          "  dbCredentials: {",
          "    url: process.env[\"DATABASE_URL\"]!,",
          "  },",
          "});" >>)

RECURSIVE SetAll(_, _)
SetAll(obj, pairs) ==
  IF pairs = <<>> THEN obj ELSE SetAll(Set(obj, Head(pairs)[1], Head(pairs)[2]), Tail(pairs))

\* `npm i [-D] <packages>` exiting 0 in a member directory: the member's
\* manifest lists each package, under `key`, with the range npm resolved
NpmInstall(f, at, key, packages) ==
  LET p == Append(at, "package.json")
      obj == f[p].obj
      old == IF Has(obj, key) THEN Get(obj, key) ELSE <<>>
      new == SetAll(old, [i \in 1..Len(packages) |-> <<packages[i], "^resolved">>])
  IN  [f EXCEPT ![p] = Json(Set(obj, key, new))]

\* addDbPackage() run in directory dir; npmOk is how many of the two `npm i`
\* child processes exit 0 before one fails
addDbPackage(f, dir, npmOk) ==
  LET s0 == Require(Start(f), RootReadable(f, dir))
      scope == ScopeOf(f, dir)
      at == Resolve(dir, <<"packages", "db">>)
      s1 == Mkdir(s0, Append(at, "src"))
      s2 == WriteFile(s1, Append(at, "package.json"), DbManifest(scope))
      s3 == Exec(s2, "npm i drizzle-orm @neondatabase/serverless dotenv", npmOk >= 1,
                 NpmInstall(s2.fs, at, "dependencies",
                            <<"drizzle-orm", "@neondatabase/serverless", "dotenv">>))
      s4 == Exec(s3, "npm i -D drizzle-kit tsx", npmOk >= 2,
                 NpmInstall(s3.fs, at, "devDependencies", <<"drizzle-kit", "tsx">>))
      s5 == WriteFile(s4, Append(at, ".env"), Text(<< "DATABASE_URL=" >>))
      s6 == WriteFile(s5, at \o <<"src", "index.ts">>, DbIndex)
      s7 == WriteFile(s6, at \o <<"src", "schema.ts">>, Text(<<>>))
      s8 == WriteFile(s7, Append(at, "drizzle.config.ts"), DrizzleConfig)
      s9 == WriteFile(s8, Append(at, "tsconfig.json"), DbTsconfig(scope))
  IN  IF ~s0.ok THEN s0 ELSE s9

\* addPackage(name) run in directory dir
addPackage(f, dir, name, npmOk) ==
  IF name = "db" THEN addDbPackage(f, dir, npmOk)
  ELSE
    LET s0 == Require(Start(f), RootReadable(f, dir))
        scope == ScopeOf(f, dir)
        at == Resolve(dir, <<"packages", name>>)
        s1 == Mkdir(s0, Append(at, "src"))
    IN  IF ~s0.ok THEN s0 ELSE WriteAll(s1, at, PackageFiles(scope, name))

----------------------------------------------------------------------------
(* add auth (the revision of the program in index.test.ts) *)

\* prompt(question, options): the 1-based answer picks an option; any other
\* answer (out of range, or not a number: parseInt gives NaN, written -1 here)
\* falls back to the first option
prompt(answer, options) ==
  LET index == answer - 1 IN
  IF answer # -1 /\ index >= 0 /\ index < Len(options) THEN options[index + 1]
  ELSE options[1]

AuthSchemaImports ==
  << "import { pgTable, text, boolean, timestamp } from \"drizzle-orm/pg-core\";",
     "import { timestamps } from \"./columns\";" >>

AuthTables ==
      << "export const user = pgTable(\"user\", {",
          "  id: text(\"id\").primaryKey(),",
          "  name: text(\"name\").notNull(),",
          "  email: text(\"email\").notNull().unique(),",
          "  emailVerified: boolean(\"email_verified\").notNull().default(false),",
          "  image: text(\"image\"),",
          "  ...timestamps,",
          "});",
          "",
          "export const session = pgTable(\"session\", {",
          "  id: text(\"id\").primaryKey(),",
          "  userId: text(\"user_id\").notNull().references(() => user.id),",
          "  token: text(\"token\").notNull().unique(),",
          "  expiresAt: timestamp(\"expires_at\", { withTimezone: true }).notNull(),",
          "  ipAddress: text(\"ip_address\"),",
          "  userAgent: text(\"user_agent\"),",
          "  ...timestamps,",
          "});",
          "",
          "export const account = pgTable(\"account\", {",
          "  id: text(\"id\").primaryKey(),",
          "  userId: text(\"user_id\").notNull().references(() => user.id),",
          "  accountId: text(\"account_id\").notNull(),",
          "  providerId: text(\"provider_id\").notNull(),",
          "  accessToken: text(\"access_token\"),",
          "  refreshToken: text(\"refresh_token\"),",
          "  accessTokenExpiresAt: timestamp(\"access_token_expires_at\", { withTimezone: true }),",
          "  refreshTokenExpiresAt: timestamp(\"refresh_token_expires_at\", { withTimezone: true }),",
          "  scope: text(\"scope\"),",
          "  idToken: text(\"id_token\"),",
          "  password: text(\"password\"),",
          "  ...timestamps,",
          "});",
          "",
          "export const verification = pgTable(\"verification\", {",
          "  id: text(\"id\").primaryKey(),",
          "  identifier: text(\"identifier\").notNull(),",
          "  value: text(\"value\").notNull(),",
          "  expiresAt: timestamp(\"expires_at\", { withTimezone: true }).notNull(),",
          "  ...timestamps,",
          "});" >>

AuthSchema_after(existing) == Text(AuthSchemaImports \o AuthTables \o << "" >> \o existing)

\* the new content of schema.ts: the import lines, ${existingSchema}, the
\* newline that follows it in the template, the four tables
AuthSchema(existing) == Text(AuthSchemaImports \o existing \o << "" >> \o AuthTables)

AuthTs ==
  Text(<< "import { betterAuth } from \"better-auth\";",
          "import { drizzleAdapter } from \"better-auth/adapters/drizzle\";",
          "import { db } from \"./index\";",
          "import * as schema from \"./schema\";",
          "",
          "export const auth = betterAuth({",
          "  database: drizzleAdapter(db, {",
          "    provider: \"pg\",",
          "    schema,",
          "  }),",
          "  emailAndPassword: {",
          "    enabled: true,",
          "  },",
          "});" >>)

HonoAuthIndex(scope, appName) ==
  Text(<< "import { serve } from \"@hono/node-server\";",
          "import { Hono } from \"hono\";",
          "import { cors } from \"hono/cors\";",
          "import { auth } from \"@" \o scope \o "/db/auth\";",
          "",
          "const app = new Hono<{",
          "  Variables: {",
          "    user: typeof auth.$Infer.Session.user | null;",
          "    session: typeof auth.$Infer.Session.session | null;",
          "  };",
          "}>();",
          "",
          "app.use(",
          "  \"/api/auth/*\",",
          "  cors({",
          "    origin: \"http://localhost:5173\",",
          "    allowHeaders: [\"Content-Type\", \"Authorization\"],",
          "    allowMethods: [\"POST\", \"GET\", \"OPTIONS\"],",
          "    exposeHeaders: [\"Content-Length\"],",
          "    maxAge: 600,",
          "    credentials: true,",
          "  })",
          ");",
          "",
          "app.use(\"*\", async (c, next) => {",
          "  const session = await auth.api.getSession({ headers: c.req.raw.headers });",
          "  if (!session) {",
          "    c.set(\"user\", null);",
          "    c.set(\"session\", null);",
          "    return next();",
          "  }",
          "  c.set(\"user\", session.user);",
          "  c.set(\"session\", session.session);",
          "  return next();",
          "});",
          "",
          "app.on([\"POST\", \"GET\"], \"/api/auth/*\", (c) => auth.handler(c.req.raw));",
          "",
          "app.get(\"/\", (c) => c.text(\"Hello from " \o appName \o "!\"));",
          "",
          "serve({ fetch: app.fetch, port: 3000 }, (info) => {",
          "  console.log('Server running at http://localhost:${info.port}');",
          "});" >>)

AuthEnvLines == << "BETTER_AUTH_SECRET=", "BETTER_AUTH_URL=http://localhost:3000" >>

HasAuthMarker_never(lines) == FALSE

\* envContent.includes("BETTER_AUTH_SECRET"), over the lines a .env can hold
HasAuthMarker(lines) == \E i \in 1..Len(lines) : lines[i] = "BETTER_AUTH_SECRET="

\* pkg.dependencies?.hono
DependsOnHono(obj) == Has(obj, "dependencies") /\ Has(Get(obj, "dependencies"), "hono")

\* the apps that addAuth's loop pushes to honoApps
HonoApps(f, dir) ==
  { app \in Entries(f, Append(dir, "apps")) :
      LET p == Resolve(dir, <<"apps", app, "package.json">>) IN
      Exists(f, p) /\ f[p].kind = "json" /\ DependsOnHono(f[p].obj) }

\* JSON.parse of an apps/<app>/package.json that the loop reads throws
HonoScanThrows(f, dir) ==
  \E app \in Entries(f, Append(dir, "apps")) :
    LET p == Resolve(dir, <<"apps", app, "package.json">>) IN
    Exists(f, p) /\ f[p].kind # "json"

\* the orders in which readdirSync can list the set s
Orders(s) == {o \in [1..Cardinality(s) -> s] : \A a \in s : \E i \in DOMAIN o : o[i] = a}

\* addAuth() run in directory dir: honoApps is the list the loop built, answer
\* the line typed at the prompt, npmOk whether the final `npm install` exits 0
addAuth(f, dir, honoApps, answer, npmOk) ==
  LET db == Resolve(dir, <<"packages", "db">>)
      s0 == Require(Start(f), Exists(f, db))
      s1 == Require(s0, ~HonoScanThrows(f, dir))
      s2 == Require(s1, Len(honoApps) # 0)
      appName == IF Len(honoApps) > 1 THEN prompt(answer, honoApps) ELSE honoApps[1]
      app == Resolve(dir, <<"apps", appName>>)
      s3 == Require(s2, RootReadable(f, dir))
      scope == ScopeOf(f, dir)
      schemaPath == db \o <<"src", "schema.ts">>
      s4 == Require(s3, IsFile(f, schemaPath) /\ f[schemaPath].kind = "text")
      s5 == WriteFile(s4, schemaPath, AuthSchema(f[schemaPath].lines))
      s6 == WriteFile(s5, db \o <<"src", "auth.ts">>, AuthTs)
      dbPkgPath == Append(db, "package.json")
      s7 == Require(s6, IsFile(f, dbPkgPath) /\ f[dbPkgPath].kind = "json")
      dbPkg == f[dbPkgPath].obj
      s8 == Require(s7, Has(dbPkg, "dependencies"))
      dbPkg1 == Set(dbPkg, "dependencies", Set(Get(dbPkg, "dependencies"), "better-auth", "^1"))
      s9 == Require(s8, Has(dbPkg, "exports"))
      dbPkg2 == Set(dbPkg1, "exports", Set(Get(dbPkg1, "exports"), "./auth", "./src/auth.ts"))
      s10 == WriteFile(s9, dbPkgPath, Json(dbPkg2))
      envPath == Append(db, ".env")
      s11 == Require(s10, IsFile(f, envPath) /\ f[envPath].kind = "text")
      s12 == IF s11.ok /\ ~HasAuthMarker(f[envPath].lines)
               THEN WriteFile(s11, envPath, Text(f[envPath].lines \o AuthEnvLines))
               ELSE s11
      s13 == WriteFile(s12, app \o <<"src", "index.ts">>, HonoAuthIndex(scope, appName))
      appPkgPath == Append(app, "package.json")
      appPkg == f[appPkgPath].obj
      s14 == WriteFile(s13, appPkgPath,
                       Json(Set(appPkg, "dependencies",
                                Set(Get(appPkg, "dependencies"), MemberName(scope, "db"), "*"))))
      s15 == Exec(s14, "npm install", npmOk, s14.fs)
  IN  s15

----------------------------------------------------------------------------
(* Inputs *)

\* the directory that holds everything the model looks at
Base == <<"tmp">>

\* the disks a session can start from
EmptyDisk == (Base :> Dir)

DiskWithEmptyProj == (Base :> Dir) @@ (<<"tmp", "proj">> :> Dir)

DiskWithUsedProj ==
  (Base :> Dir) @@ (<<"tmp", "proj">> :> Dir)
    @@ (<<"tmp", "proj", "notes.txt">> :> Text(<<"notes">>))

\* the number typed at a prompt; -1 stands for a line that is not a number
Answers == {-1, 0, 1, 2, 3}

(* A session is one user at one place on one machine: the disk it starts    *)
(* from, the directory `init` is invoked in and its argument, and the       *)
(* vocabulary of the commands the user issues there.  Every behaviour is    *)
(* one session; the reachable disks of two sessions never mix, so the       *)
(* vocabularies can be wide where a claim needs it without multiplying.     *)
Quiet ==
  [disk |-> EmptyDisk, cwd |-> Base, target |-> <<"proj">>,
   git |-> {TRUE},          \* the exits of `git init`: TRUE is exit code 0
   dirs |-> {"workspace"},  \* where `add` is invoked
   apps |-> {}, flags |-> {}, tailwind |-> {FALSE}, answers |-> {0},
   packages |-> {}, npm |-> {2}, auth |-> FALSE, other |-> FALSE]

\* where the workspace is put: every form of target, every state of the target
Placement(disk, cwd, target) ==
  [Quiet EXCEPT !.disk = disk, !.cwd = cwd, !.target = target,
                !.git = BOOLEAN, !.dirs = {"workspace", "cwd"},
                !.apps = {"web"}, !.flags = {"react"},
                !.packages = {"utils"}, !.other = TRUE]

Placements ==
  { Placement(EmptyDisk, Base, <<"proj">>),
    Placement(EmptyDisk, Base, <<"proj", "">>),
    Placement(EmptyDisk, Base, <<"nested", "my-app">>),
    Placement(DiskWithEmptyProj, Base, <<"proj">>),
    Placement(DiskWithEmptyProj, <<"tmp", "proj">>, <<".">>),
    Placement(DiskWithEmptyProj, <<"tmp", "proj">>, <<".", "">>),
    Placement(DiskWithUsedProj, Base, <<"proj">>),
    Placement(DiskWithUsedProj, <<"tmp", "proj">>, <<".">>) }

\* one app name under every framework flag, prompt answer and --tailwind
OneApp ==
  [Quiet EXCEPT !.apps = {"web", "", "--framework"},
                !.flags = {"react", "hono", "vue", ""},
                !.tailwind = BOOLEAN, !.answers = Answers]

\* every kind of member, and add auth on them
AllKinds ==
  [Quiet EXCEPT !.apps = {"web"}, !.flags = {"react", "hono"},
                !.packages = {"utils", "db", "tsconfig", ""},
                !.npm = 0..2, !.auth = TRUE]

\* two server apps and the data package, and add auth with every answer
TwoServers ==
  [Quiet EXCEPT !.apps = {"web", "api"}, !.flags = {"hono"},
                !.packages = {"db"}, !.npm = {0, 2}, !.auth = TRUE,
                !.answers = Answers]

Sessions == Placements \cup {OneApp, AllKinds, TwoServers}

\* the workspace directory of the session
Workspace == Resolve(session.cwd, session.target)

\* the directories an `add` command is invoked in: the workspace, or the
\* directory `init` was invoked in
AddDirs ==
  (IF "workspace" \in session.dirs THEN {Workspace} ELSE {})
    \cup (IF "cwd" \in session.dirs THEN {session.cwd} ELSE {})

NoArgs == [command |-> "", subcommand |-> "", target |-> <<>>, name |-> "",
           framework |-> "", tailwind |-> FALSE, answer |-> 0]

Done(f, args, dir, exit, lg) ==
  /\ fs' = f
  /\ last' = [args |-> args, cwd |-> dir, exit |-> exit]
  /\ log' = lg
  /\ UNCHANGED session

Finish(st, args, dir) == Done(st.fs, args, dir, IF st.ok THEN 0 ELSE 1, st.log)

----------------------------------------------------------------------------
(* The program: one action per branch of the command dispatch *)

Init ==
  /\ session \in Sessions
  /\ fs = session.disk
  /\ last = [args |-> NoArgs, cwd |-> session.cwd, exit |-> 0]
  /\ log = <<>>

\* seren --help | -h | (no argument)
CmdHelp ==
  /\ session.other
  /\ \E c \in {"--help", "-h", ""} :
       Done(fs, [NoArgs EXCEPT !.command = c], session.cwd, 0, <<>>)

\* seren --version | -v
CmdVersion ==
  /\ session.other
  /\ \E c \in {"--version", "-v"} :
       Done(fs, [NoArgs EXCEPT !.command = c], session.cwd, 0, <<>>)

\* seren init [dir]
CmdInit ==
  \E gitOk \in session.git :
    Finish(init(fs, session.cwd, session.target, gitOk),
           [NoArgs EXCEPT !.command = "init", !.target = session.target],
           session.cwd)

StartsWithDash_never(name) == FALSE

\* name.startsWith("-"), over the names of the sessions
StartsWithDash(name) == name = "--framework"

\* seren add app <name> [--framework <f>] [--tailwind]; the name "" is the
\* argument left out, the flag "" is --framework left out, which makes the
\* program ask
CmdAddApp ==
  \E dir \in AddDirs, name \in session.apps, flag \in session.flags,
     tailwind \in session.tailwind, answer \in session.answers :
    LET args == [NoArgs EXCEPT !.command = "add", !.subcommand = "app", !.name = name,
                               !.framework = flag, !.tailwind = tailwind, !.answer = answer]
        framework == IF flag = "" THEN prompt(answer, <<"react", "hono">>) ELSE flag
    IN  /\ flag # "" => answer = 0
        /\ IF name = "" \/ StartsWithDash(name) THEN Done(fs, args, dir, 1, <<>>)
           ELSE IF framework = "react" THEN Finish(addReactApp(fs, dir, name, tailwind), args, dir)
           ELSE IF framework = "hono" THEN Finish(addHonoApp(fs, dir, name), args, dir)
           ELSE Done(fs, args, dir, 1, <<>>)

\* seren add package <name>; the name "" is the argument left out
CmdAddPackage ==
  \E dir \in AddDirs, name \in session.packages, npmOk \in session.npm :
    LET args == [NoArgs EXCEPT !.command = "add", !.subcommand = "package", !.name = name]
    IN  /\ name # "db" => \A n \in session.npm : npmOk <= n
        /\ IF name = "" THEN Done(fs, args, dir, 1, <<>>)
           ELSE Finish(addPackage(fs, dir, name, npmOk), args, dir)

RECURSIVE Count(_, _)
Count(lines, x) ==
  IF lines = <<>> THEN 0 ELSE (IF Head(lines) = x THEN 1 ELSE 0) + Count(Tail(lines), x)

\* the number of copies of the auth tables in the schema file
AuthBlocks(f, dir) ==
  LET p == Resolve(dir, <<"packages", "db", "src", "schema.ts">>) IN
  IF IsFile(f, p) /\ f[p].kind = "text" THEN Count(f[p].lines, AuthTables[1]) ELSE 0

\* seren add auth
CmdAddAuth ==
  /\ session.auth
  /\ \E dir \in AddDirs, answer \in session.answers, npmOk \in BOOLEAN :
       \E honoApps \in Orders(HonoApps(fs, dir)) :
         LET args == [NoArgs EXCEPT !.command = "add", !.subcommand = "auth", !.answer = answer]
         IN  /\ AuthBlocks(fs, dir) < MaxAuthBlocks
             /\ Len(honoApps) <= 1 => \A a \in session.answers : (a < answer => a < 0)
             /\ Finish(addAuth(fs, dir, honoApps, answer, npmOk), args, dir)

\* anything else
CmdUnknown ==
  /\ session.other
  /\ \E c \in {[command |-> "remove", subcommand |-> ""],
               [command |-> "add", subcommand |-> ""],
               [command |-> "add", subcommand |-> "lib"]} :
       Done(fs, [NoArgs EXCEPT !.command = c.command, !.subcommand = c.subcommand],
            session.cwd, 1, <<>>)

Next ==
  \/ CmdHelp
  \/ CmdVersion
  \/ CmdInit
  \/ CmdAddApp
  \/ CmdAddPackage
  \/ CmdAddAuth
  \/ CmdUnknown

Spec == Init /\ [][Next]_vars

----------------------------------------------------------------------------
(* Properties *)

IsInit(l) == l.args.command = "init"

\* the last invocation was init and went past its guard (it called mkdir)
InitRan == IsInit(last) /\ log # <<>>

RootPath == Append(Workspace, "package.json")

C2_InitIdempotent ==
  [][ (IsInit(last) /\ last.exit = 0 /\ IsInit(last'))
        => (last'.exit = 0 /\ fs' = fs) ]_vars

C4_InitCreatesMonorepo ==
  (IsInit(last) /\ last.exit = 0) =>
    /\ IsDir(fs, Workspace)
    /\ IsFile(fs, RootPath)
    /\ fs[RootPath].kind = "json"
    /\ Has(fs[RootPath].obj, "private") /\ Get(fs[RootPath].obj, "private") = TRUE
    /\ Has(fs[RootPath].obj, "workspaces")
    /\ Get(fs[RootPath].obj, "workspaces") = <<"apps/*", "packages/*">>
    /\ IsDir(fs, Append(Workspace, "apps"))
    /\ IsDir(fs, Workspace \o <<"packages", "tsconfig">>)
    /\ \A v \in {"base.json", "react.json", "node.json"} :
         IsFile(fs, Workspace \o <<"packages", "tsconfig", v>>)
    /\ IsDir(fs, Append(Workspace, ".git"))

\* init exited 0 on a target that was not on disk when the session began
C4_Witness ==
  /\ IsInit(last) /\ last.exit = 0
  /\ ~Exists(session.disk, Workspace)
  /\ IsDir(fs, Append(Workspace, ".git"))

\* the segments of a path that are not empty
Segments(path) == SelectSeq(path, LAMBDA s : s # "")

\* C5: the root manifest that init writes is named by the last segment of the
\* target, or of the working directory when the target is "."; every
\* directory on the way to the target is there afterwards.
C5_NameIsLastSegment ==
  InitRan =>
    /\ IsFile(fs, RootPath)
    /\ Get(fs[RootPath].obj, "name") =
         (IF session.target = <<".">> THEN session.cwd[Len(session.cwd)]
          ELSE Segments(session.target)[Len(Segments(session.target))])
    /\ \A n \in 1..Len(Workspace) : IsDir(fs, SubSeq(Workspace, 1, n))

\* init wrote the manifest of a target two levels below the working
\* directory, neither level being there before
C5_Witness ==
  /\ InitRan
  /\ session.target = <<"nested", "my-app">>
  /\ ~Exists(session.disk, <<"tmp", "nested">>)
  /\ IsFile(fs, RootPath)

\* the member directories of the workspace: apps/* and packages/* that hold a
\* manifest
MemberDirs(f) ==
  UNION { { Workspace \o <<g, n>> : n \in Entries(f, Append(Workspace, g)) }
          : g \in {"apps", "packages"} }

Members(f) ==
  { d \in MemberDirs(f) :
      IsFile(f, Append(d, "package.json")) /\ f[Append(d, "package.json")].kind = "json" }

Manifest(f, d) == f[Append(d, "package.json")].obj

IsAdd(l, sub) == l.args.command = "add" /\ l.args.subcommand = sub

Wrote(lg, p) == \E i \in 1..Len(lg) : lg[i].op = "write" /\ lg[i].path = p

\* the invocation wrote p, which was not there (over = FALSE) or was (TRUE)
WroteOver(lg, p, over) ==
  \E i \in 1..Len(lg) : lg[i] = [op |-> "write", path |-> p, over |-> over]

\* the member directory an `add app` or `add package` invocation names
Named(l) ==
  Resolve(l.cwd, <<IF l.args.subcommand = "app" THEN "apps" ELSE "packages", l.args.name>>)

C7_SharedConfigManifest ==
  InitRan =>
    LET cfgDir == Workspace \o <<"packages", "tsconfig">>
        cfg == Manifest(fs, cfgDir)
    IN  /\ Get(cfg, "name") = "@" \o Get(fs[RootPath].obj, "name") \o "/tsconfig"
        /\ Keys(Get(cfg, "exports")) = {"./base", "./react", "./node"}
        /\ \A v \in {"base", "react", "node"} :
             /\ Get(Get(cfg, "exports"), "./" \o v) = "./" \o v \o ".json"
             /\ Wrote(log, Append(cfgDir, v \o ".json"))

\* init has written the shared config package of the workspace my-app
C7_Witness ==
  /\ InitRan
  /\ Get(fs[RootPath].obj, "name") = "my-app"
  /\ IsFile(fs, Workspace \o <<"packages", "tsconfig", "package.json">>)

\* the variant a member's tsconfig.json is to extend
VariantFor(f, d) ==
  IF d[Len(d) - 1] = "packages" THEN "base"
  ELSE IF DependsOnHono(Manifest(f, d)) THEN "node"
  ELSE "react"

\* C8 (as claimed): in every state every member tsconfig.json extends
\* <shared config package name>/<variant>, ./<variant> being a key of that
\* package's exports: react for React apps, node for Hono apps, base for
\* packages.
C8_ConfigInheritance ==
  \A d \in Members(fs) :
    IsFile(fs, Append(d, "tsconfig.json")) =>
      LET cfg == Manifest(fs, Workspace \o <<"packages", "tsconfig">>)
          v == VariantFor(fs, d)
      IN  /\ Get(fs[Append(d, "tsconfig.json")].obj, "extends") = Get(cfg, "name") \o "/" \o v
          /\ Has(cfg, "exports")
          /\ ("./" \o v) \in Keys(Get(cfg, "exports"))

\* C9 (as claimed): in every state every app and package declares the shared
\* config package under its manifest name with the selector *, and an app
\* that declares a workspace dependency (selector *) in `dependencies`
\* declares the db package under its manifest name, whose exports hold ./auth.
C9_CrossReference ==
  LET cfgDir == Workspace \o <<"packages", "tsconfig">>
      dbDir == Workspace \o <<"packages", "db">>
  IN  \A d \in Members(fs) :
        LET m == Manifest(fs, d) IN
        /\ d # cfgDir =>
             /\ Has(m, "devDependencies")
             /\ Has(Get(m, "devDependencies"), Get(Manifest(fs, cfgDir), "name"))
             /\ Get(Get(m, "devDependencies"), Get(Manifest(fs, cfgDir), "name")) = "*"
        /\ Has(m, "dependencies") =>
             \A k \in Keys(Get(m, "dependencies")) :
               Get(Get(m, "dependencies"), k) = "*" =>
                 /\ dbDir \in Members(fs)
                 /\ k = Get(Manifest(fs, dbDir), "name")
                 /\ Has(Manifest(fs, dbDir), "exports")
                 /\ "./auth" \in Keys(Get(Manifest(fs, dbDir), "exports"))

TailwindDevDependencies == << <<"tailwindcss", "^4.1.10">>, <<"@tailwindcss/vite", "^4.1.10">> >>

\* a step from `add app <name> --framework react` to the same request with
\* --tailwind, both exiting 0
Rerendered ==
  /\ IsAdd(last, "app") /\ IsAdd(last', "app")
  /\ last.args.framework = "react" /\ last'.args.framework = "react"
  /\ last.args.name = last'.args.name /\ last.cwd = last'.cwd
  /\ ~last.args.tailwind /\ last'.args.tailwind
  /\ last.exit = 0 /\ last'.exit = 0

\* C10: rendering a React app with --tailwind over the same request rendered
\* without it keeps every file and changes only the styling items: the two
\* tailwind devDependencies, src/index.css, the stylesheet import of
\* src/main.tsx, the plugin import and registration of vite.config.ts.
\* index.html, src/App.tsx, tsconfig.json, every other field of the manifest
\* and every other path are as they were.
C10_TailwindAdditive ==
  [][ Rerendered =>
        LET app == Named(last')
            pkg == Append(app, "package.json")
            main == app \o <<"src", "main.tsx">>
            vite == Append(app, "vite.config.ts")
            css == app \o <<"src", "index.css">>
            Not(lines, drop) == SelectSeq(lines, LAMBDA l : l \notin drop)
        IN  /\ DOMAIN fs \subseteq DOMAIN fs'
            /\ DOMAIN fs' \subseteq DOMAIN fs \cup {css}
            /\ IsFile(fs', css)
            /\ \A p \in DOMAIN fs \ {pkg, main, vite, css} : fs'[p] = fs[p]
            /\ Len(fs'[pkg].obj) = Len(fs[pkg].obj)
            /\ \A i \in 1..Len(fs[pkg].obj) :
                 IF fs[pkg].obj[i][1] = "devDependencies"
                   THEN fs'[pkg].obj[i] =
                          <<"devDependencies", fs[pkg].obj[i][2] \o TailwindDevDependencies>>
                   ELSE fs'[pkg].obj[i] = fs[pkg].obj[i]
            /\ Not(fs'[main].lines, {"import \"./index.css\";"}) = fs[main].lines
            /\ LET old == fs[vite].lines
                   new == Not(fs'[vite].lines, {"import tailwindcss from \"@tailwindcss/vite\";"})
               IN  /\ Len(new) = Len(old)
                   /\ \A i \in 1..Len(old) :
                        \/ new[i] = old[i]
                        \/ /\ old[i] = "  plugins: [react()],"
                           /\ new[i] = "  plugins: [react(), tailwindcss()]," ]_vars

\* an app rendered with --tailwind over its rendering without: the invocation
\* replaced src/main.tsx and vite.config.ts and made src/index.css
C10_Witness ==
  /\ IsAdd(last, "app") /\ last.args.tailwind /\ last.exit = 0
  /\ last.args.framework = "react"
  /\ WroteOver(log, Named(last) \o <<"src", "main.tsx">>, TRUE)
  /\ WroteOver(log, Append(Named(last), "vite.config.ts"), TRUE)
  /\ WroteOver(log, Named(last) \o <<"src", "index.css">>, FALSE)
  /\ Len(fs[Named(last) \o <<"src", "main.tsx">>].lines) = 5

\* p is a path below directory d
Below(p, d) == Len(p) > Len(d) /\ SubSeq(p, 1, Len(d)) = d

\* C11 (as claimed): add app <name> and add package <name> never replace a
\* file that apps/<name> or packages/<name> already holds by other content:
\* the command exits non-zero instead and the disk stays as it was.
C11_MemberNameUniqueness ==
  [][ (IsAdd(last', "app") \/ IsAdd(last', "package")) =>
        LET replaced == { p \in DOMAIN fs :
                            /\ IsFile(fs, p) /\ Below(p, Named(last'))
                            /\ WroteOver(log', p, TRUE) /\ fs'[p] # fs[p] }
        IN  /\ replaced = {}
            /\ (\E p \in DOMAIN fs :
                  /\ IsFile(fs, p) /\ Below(p, Named(last'))
                  /\ WroteOver(log', p, TRUE) /\ fs'[p] # fs[p])
                 => (last'.exit # 0 /\ fs' = fs) ]_vars

\* the last invocation made a child process start
Execed(lg) == \E i \in 1..Len(lg) : lg[i].op = "exec"

\* C12 (as claimed): an add auth that stops at a missing prerequisite (it
\* exits non-zero before its npm install starts) leaves the disk as it was.
C12_AuthFailsFast ==
  [][ (IsAdd(last', "auth") /\ last'.exit # 0 /\ ~Execed(log')) => fs' = fs ]_vars

\* C13 (as claimed): with one Hono app, an add auth that follows a successful
\* add auth in the same directory leaves the disk as the first one left it,
\* and the schema file holds the auth tables once.
C13_AuthRepeatable ==
  [][ ( /\ IsAdd(last, "auth") /\ last.exit = 0
        /\ IsAdd(last', "auth") /\ last'.cwd = last.cwd
        /\ Cardinality(HonoApps(fs, last.cwd)) = 1 )
        => (fs' = fs /\ AuthBlocks(fs', last.cwd) = 1) ]_vars

\* add auth ran to its end: it started its npm install
AuthRan(l, lg) == IsAdd(l, "auth") /\ Execed(lg)

EnvPath(l) == Resolve(l.cwd, <<"packages", "db", ".env">>)

SchemaPath(l) == Resolve(l.cwd, <<"packages", "db", "src", "schema.ts">>)

\* C14: an add auth that runs to its end appends the two BETTER_AUTH lines to
\* packages/db/.env only when no BETTER_AUTH_SECRET line is there, after the
\* previous content; when the line is there it does not write the file; and
\* afterwards each of the two lines is in the file exactly once.
C14_EnvAppendIfAbsent ==
  [][ AuthRan(last', log') =>
        LET old == fs[EnvPath(last')].lines
            new == fs'[EnvPath(last')].lines
            marked == Count(old, "BETTER_AUTH_SECRET=") > 0
        IN  /\ Len(new) >= Len(old) /\ SubSeq(new, 1, Len(old)) = old
            /\ marked => (new = old /\ ~Wrote(log', EnvPath(last')))
            /\ ~marked =>
                 /\ new = old \o << "BETTER_AUTH_SECRET=", "BETTER_AUTH_URL=http://localhost:3000" >>
                 /\ Wrote(log', EnvPath(last'))
            /\ Count(new, "BETTER_AUTH_SECRET=") = 1
            /\ Count(new, "BETTER_AUTH_URL=http://localhost:3000") = 1 ]_vars

\* add auth has run to its end on a .env that held the block, and left it alone
C14_Witness ==
  /\ AuthRan(last, log) /\ last.exit = 0
  /\ ~Wrote(log, EnvPath(last))
  /\ fs[EnvPath(last)].lines =
       << "DATABASE_URL=", "BETTER_AUTH_SECRET=", "BETTER_AUTH_URL=http://localhost:3000" >>

\* the first lines of the four tables that add auth appends
TableHeads ==
  << "export const user = pgTable(\"user\", {",
     "export const session = pgTable(\"session\", {",
     "export const account = pgTable(\"account\", {",
     "export const verification = pgTable(\"verification\", {" >>

\* C15: when add auth writes packages/db/src/schema.ts, the new content is
\* the two import lines, then the previous content whole and in one piece,
\* then new text that holds the four table definitions user, session,
\* account, verification, each once and in this order.
C15_SchemaMutation ==
  [][ (IsAdd(last', "auth") /\ Wrote(log', SchemaPath(last'))) =>
        LET old == fs[SchemaPath(last')].lines
            new == fs'[SchemaPath(last')].lines
            rest == SubSeq(new, 3 + Len(old), Len(new))
        IN  /\ Len(new) = 2 + Len(old) + 1 + Len(AuthTables)
            /\ SubSeq(new, 1, 2) =
                 << "import { pgTable, text, boolean, timestamp } from \"drizzle-orm/pg-core\";",
                    "import { timestamps } from \"./columns\";" >>
            /\ SubSeq(new, 3, 2 + Len(old)) = old
            /\ SelectSeq(rest, LAMBDA l : \E i \in 1..4 : l = TableHeads[i]) = TableHeads
            /\ rest = << "" >> \o AuthTables ]_vars

\* add auth has wrapped a schema file that was not empty
C15_Witness ==
  /\ IsAdd(last, "auth") /\ WroteOver(log, SchemaPath(last), TRUE)
  /\ Len(fs[SchemaPath(last)].lines) > 3 + Len(AuthTables)
  /\ Count(fs[SchemaPath(last)].lines, TableHeads[4]) = 2

\* the files of the apps of the directory that differ between two disks
AppsChanged(f, g, dir) ==
  { p \in DOMAIN f \cup DOMAIN g :
      /\ Below(p, Append(dir, "apps"))
      /\ (p \notin DOMAIN f \/ p \notin DOMAIN g \/ f[p] # g[p]) }

\* C16 (as claimed): add auth changes the files of at most one app, which is
\* one of the eligible Hono apps; with several eligible apps and an answer
\* that names none of them (0, beyond the list, not a number) it changes no
\* app.
C16_CandidateSelection ==
  [][ IsAdd(last', "auth") =>
        LET eligible == HonoApps(fs, last'.cwd)
            n == Cardinality(eligible)
            valid == last'.args.answer \in 1..n
        IN  /\ \A p \in AppsChanged(fs, fs', last'.cwd) :
                 p[Len(last'.cwd) + 2] \in eligible
            /\ \A p, q \in AppsChanged(fs, fs', last'.cwd) :
                 p[Len(last'.cwd) + 2] = q[Len(last'.cwd) + 2]
            /\ (n > 1 /\ ~valid) => AppsChanged(fs, fs', last'.cwd) = {} ]_vars

\* the invocation is one that the dispatch refuses for its arguments
IsUsageError(l) ==
  \/ IsAdd(l, "app") /\ l.args.name \in {"", "--framework"}
  \/ IsAdd(l, "app") /\ l.args.framework \notin {"", "react", "hono"}
  \/ IsAdd(l, "package") /\ l.args.name = ""
  \/ l.args.command = "add" /\ l.args.subcommand \notin {"app", "package", "auth"}
  \/ l.args.command \notin {"", "--help", "-h", "--version", "-v", "init", "add"}

IsInfo(l) == l.args.command \in {"", "--help", "-h", "--version", "-v"}

\* C17: an invocation with missing or invalid arguments exits non-zero, and
\* --help and --version exit 0; neither makes a directory, writes a file or
\* starts a process, and the disk is as it was.
C17_UsageErrorsNeverMutate ==
  [][ /\ IsUsageError(last') => (last'.exit # 0 /\ log' = <<>> /\ fs' = fs)
      /\ IsInfo(last') => (last'.exit = 0 /\ log' = <<>> /\ fs' = fs) ]_vars

\* add app was refused for a name that starts with "-", with --framework
\* given, in a workspace where an app could have been written
C17_Witness ==
  /\ IsAdd(last, "app") /\ last.args.name = "--framework"
  /\ last.args.framework = "hono" /\ last.exit = 1 /\ log = <<>>
  /\ last.cwd = Workspace /\ IsFile(fs, RootPath)

\* C18 (as claimed): in every invocation no directory is made and no file is
\* written after a child process has started; init starts git exactly once
\* when it passes its guard; a child process that fails leaves the files
\* written before it.
C18_ExecAfterMaterialization ==
  [][ /\ \A i, j \in 1..Len(log') :
           (i < j /\ log'[i].op = "exec") => log'[j].op = "exec"
      /\ (IsInit(last') /\ log' # <<>>) =>
           Cardinality({i \in 1..Len(log') : log'[i].op = "exec"}) = 1
      /\ \A i \in 1..Len(log') :
           log'[i].op = "write" => IsFile(fs', log'[i].path) ]_vars

IsAnyAdd(l) == l.args.command = "add"

\* the paths that differ between two disks
Changed(f, g) ==
  { p \in DOMAIN f \cup DOMAIN g : p \notin DOMAIN f \/ p \notin DOMAIN g \/ f[p] # g[p] }

\* C19 (as claimed): an add command leaves the root package.json and
\* everything under packages/tsconfig as they were; add app <name> changes
\* only paths at or under apps/<name>, add package <name> only at or under
\* packages/<name>, add auth only under packages/db and under one app.
C19_AddFrame ==
  [][ IsAnyAdd(last') =>
        LET dir == last'.cwd
            ch == Changed(fs, fs')
            AtOrBelow(p, d) == p = d \/ Below(p, d) \/ Below(d, p)
        IN  /\ Append(dir, "package.json") \notin ch
            /\ \A p \in ch : ~Below(p, dir \o <<"packages", "tsconfig">>)
            /\ (IsAdd(last', "app") \/ IsAdd(last', "package")) =>
                 \A p \in ch : AtOrBelow(p, Named(last'))
            /\ IsAdd(last', "auth") =>
                 /\ \A p \in ch : Below(p, dir \o <<"packages", "db">>)
                                    \/ Below(p, Append(dir, "apps"))
                 /\ \A p, q \in AppsChanged(fs, fs', dir) :
                      p[Len(dir) + 2] = q[Len(dir) + 2] ]_vars

====
